---- MODULE Spec2Model ----
(***************************************************************************)
(* The VirtualBox machinery of Cuckoo Sandbox (cuckoo/machinery/           *)
(* virtualbox.py): the lifecycle controller that drives VBoxManage.        *)
(*                                                                         *)
(* One controller, called synchronously: a call (status, start, stop,      *)
(* dump_pcap, list, dump_memory) runs step by step, pc naming the          *)
(* statement it has reached.                                               *)
(* VBoxManage, the machine database and the base class' _wait_status are   *)
(* the environment: every outcome they can hand back is drawn with \E.     *)
(***************************************************************************)
EXTENDS Integers, Sequences, FiniteSets, TLC

VARIABLES
    pc,           \* statement the running call has reached, "idle" between calls
    op,           \* public method being executed
    label,        \* its label argument
    status,       \* _status: the local variable status
    query,        \* what the last Popen of the call handed back: launched or OSError,
                  \* exit code, captured lines (_status: proc.returncode, output)
    machine,      \* start: the record view_machine_by_label returned
    vm_state_timeout, \* stop: the local variable vm_state_timeout
    stop_me,      \* stop: the local variable stop_me
    proc,         \* stop: the poweroff child process, as the operating system sees it;
                  \* dump_memory: the debugvm child process
    returncode,   \* stop: proc.returncode: <<>> is None, <<c>> the code a poll has reaped
    terminated,   \* stop: number of proc.terminate() requests of this call (saturating)
    registry,     \* the status set_status stored for each label
    log,          \* what the running call has issued so far, in order
    prev,         \* stop: what the start this stop follows issued, and its machine
                  \* record, when the preceding call was a start of the same label
                  \* that returned; empty otherwise
    result        \* outcome of the call: <<"return", v>>, <<"raise", e>>, or pending

vars == <<pc, op, label, status, query, machine, vm_state_timeout, stop_me, proc,
          returncode, terminated, registry, log, prev, result>>

-----------------------------------------------------------------------------
(* Bounds of the model *)

MaxLines == 2        \* lines in the output of showvminfo
MaxTimeout == 2      \* largest configured timeouts.vm_state, in seconds
MaxTerm == 2         \* terminate requests counted before the counter saturates
MaxListLines == 4    \* lines in the output of list vms

-----------------------------------------------------------------------------
(* VM states, virtualbox.py lines 21-26 *)

SAVED == "saved"
RUNNING == "running"
POWEROFF == "poweroff"
ABORTED == "aborted"
ERROR == "machete"

None == "None"       \* Python's None
Q == "\""            \* the quote character

Labels == {"box1", "box2"}

(* Machine records the database may hold: snapshot is "" when unset. *)
MachineRecords ==
    { [snapshot |-> s, options |-> o] : s \in {"", "snap1"}, o \in {{}, {"nictrace"}} }

(* Lines VBoxManage showvminfo --machinereadable may print, each a sequence
   of tokens: the quote character is a token of its own, so that counting
   quotes and splitting at quotes are computed as the code computes them. *)
Lines ==
    { <<"VMState=", Q, "poweroff", Q>>,
      <<"VMState=", Q, "running", Q>>,
      <<"VMState=", Q, "saved", Q>>,
      <<"VMState=", Q, "aborted", Q>>,
      <<"VMState=", Q, "paused", Q>>,
      <<"VMState=", Q, "PowerOff", Q>>,
      <<"VMState=", Q, Q>>,
      <<"VMState=", Q, "running">>,
      <<"VMStateChangeTime=", Q, "2016", Q>>,
      <<"name=", Q, "box1", Q>>,
      <<>> }

RECURSIVE SeqsUpTo(_, _)
SeqsUpTo(S, n) ==
    IF n = 0 THEN {<<>>}
    ELSE LET shorter == SeqsUpTo(S, n - 1)
         IN  shorter \cup { Append(s, x) : s \in shorter, x \in S }

Outputs == SeqsUpTo(Lines, MaxLines)

(* What Popen(...).communicate() of showvminfo can hand back: OSError on
   launch, or an exit code with the lines of stdout. *)
QueryOutcomes ==
    { [launched |-> FALSE, rc |-> 0, output |-> <<>>] }
    \cup { [launched |-> TRUE, rc |-> r, output |-> o] : r \in {0, 1}, o \in Outputs }

NoQuery == [launched |-> FALSE, rc |-> 0, output |-> <<>>]
NoMachine == [snapshot |-> "", options |-> {}]
Pending == <<"pending", "">>

-----------------------------------------------------------------------------
(* String functions on token lines *)

\* str.lower() on the tokens of the catalogue
Lower(s) == IF s = "PowerOff" THEN "poweroff" ELSE s

\* line.startswith(prefix), for a prefix that is one token
StartsWith(line, prefix) == Len(line) > 0 /\ line[1] = prefix

\* line.count(c)
RECURSIVE Count(_, _)
Count(line, c) ==
    IF line = <<>> THEN 0
    ELSE (IF Head(line) = c THEN 1 ELSE 0) + Count(Tail(line), c)

\* line.split(c): the fields between the occurrences of c, cur being the
\* field collected so far
RECURSIVE SplitFrom(_, _, _)
SplitFrom(line, c, cur) ==
    IF line = <<>> THEN <<cur>>
    ELSE IF Head(line) = c THEN <<cur>> \o SplitFrom(Tail(line), c, "")
    ELSE SplitFrom(Tail(line), c, cur \o Head(line))

Split(line, c) == SplitFrom(line, c, "")

\* Python truth value of a status: None and the empty string are false
Truthy(s) == s # None /\ s # ""

-----------------------------------------------------------------------------
(* _status, lines 221-268 *)

\* line 227: status = None
StatusInit_cached == registry[label]
StatusInit == None

\* lines 248-253: the OSError handler
LaunchFailureStatus_raise == None
LaunchFailureStatus == ERROR

\* lines 239-247: non-zero exit of showvminfo
NonZeroExitStatus == ERROR

\* line 257: the lines the loop takes a status from
IsStateLine_noquotecheck(line) == StartsWith(line, "VMState=") /\ Count(line, Q) >= 1
IsStateLine(line) == StartsWith(line, "VMState=") /\ Count(line, Q) = 2

\* line 258: the status a matching line carries
LineStatus(line) == Lower(Split(line, Q)[2])

\* lines 256-259: the loop over the output, every matching line overwriting status
RECURSIVE ParseLines_first(_, _)
ParseLines_first(lines, st) ==
    IF lines = <<>> THEN st
    ELSE IF IsStateLine(Head(lines)) THEN LineStatus(Head(lines))
    ELSE ParseLines_first(Tail(lines), st)
RECURSIVE ParseLines(_, _)
ParseLines(lines, st) ==
    IF lines = <<>> THEN st
    ELSE ParseLines(Tail(lines),
                    IF IsStateLine(Head(lines)) THEN LineStatus(Head(lines)) ELSE st)

\* lines 227-259: status as it stands when the reporting is reached
StatusOf(q) ==
    LET s0 == IF ~q.launched THEN LaunchFailureStatus
              ELSE IF q.rc # 0 THEN NonZeroExitStatus
              ELSE StatusInit
    IN  IF ~Truthy(s0) THEN ParseLines(q.output, s0) ELSE s0

-----------------------------------------------------------------------------
(* Outcomes of the other external commands *)

\* Popen(...).wait() and subprocess.check_call: OSError on launch, or an exit code
ProcOutcomes ==
    { [launched |-> FALSE, rc |-> 0], [launched |-> TRUE, rc |-> 0],
      [launched |-> TRUE, rc |-> 1] }

\* Popen(...).communicate() of startvm: OSError on launch, or the text of stderr
StartOutcomes ==
    { [launched |-> FALSE, err |-> ""], [launched |-> TRUE, err |-> ""],
      [launched |-> TRUE, err |-> "VBoxManage: error"] }

\* states of the poweroff child process and the exit code each leaves
ProcStates == {"none", "running", "exited0", "exited1", "killed"}
ExitCode(p) == IF p = "exited0" THEN 0 ELSE IF p = "exited1" THEN 1 ELSE -15

Ev(c, l, a) == [cmd |-> c, label |-> l, arg |-> a]
NoPrev == [issued |-> <<>>, machine |-> NoMachine]

\* the commands handed to VBoxManage and the waits, without the status queries
IsIssued(e) == e.cmd \in {"snapshot", "startvm", "controlvm", "_wait_status"}
Issued(l) == SelectSeq(l, IsIssued)

Min(a, b) == IF a < b THEN a ELSE b

-----------------------------------------------------------------------------
(* Initial state: the controller constructed, nothing called yet *)

Init ==
    /\ pc = "idle"
    /\ op = "none"
    /\ label = "box1"
    /\ status = None
    /\ query = NoQuery
    /\ machine = NoMachine
    /\ vm_state_timeout = 0
    /\ stop_me = 0
    /\ proc = "none"
    /\ returncode = <<>>
    /\ terminated = 0
    /\ registry = [l \in Labels |-> None]
    /\ log = <<>>
    /\ prev = NoPrev
    /\ result = Pending

\* the locals of a call that is not in the statements that use them
frame == <<machine, vm_state_timeout, stop_me, proc, returncode, terminated>>

\* a call leaves with a value or an exception
Leave(r) == pc' = "idle" /\ result' = r
Return(v) == Leave(<<"return", v>>)
Raise(e) == Leave(<<"raise", e>>)

-----------------------------------------------------------------------------
(* A caller invokes a public method *)

Call(o, l) ==
    /\ pc = "idle"
    /\ op' = o
    /\ label' = l
    /\ prev' = IF o = "stop" /\ op = "start" /\ l = label /\ result = <<"return", None>>
               THEN [issued |-> Issued(log), machine |-> machine] ELSE NoPrev
    /\ log' = <<>>
    /\ result' = Pending
    /\ status' = None
    /\ query' = NoQuery
    /\ machine' = NoMachine
    /\ vm_state_timeout' = 0
    /\ stop_me' = 0
    /\ proc' = "none"
    /\ returncode' = <<>>
    /\ terminated' = 0
    /\ pc' = CASE o = "dump_pcap" -> "pcap_file"
                [] o = "list" -> "list_popen"
                [] o = "dump_memory" -> "dump_version"
                [] OTHER -> "st_query"
    /\ UNCHANGED registry

CallStatus == \E l \in Labels : Call("status", l)
CallStart == \E l \in Labels : Call("start", l)
CallStop == \E l \in Labels : Call("stop", l)
CallDumpPcap == \E l \in Labels : Call("dump_pcap", l)
CallList == Call("list", label)
CallDumpMemory == \E l \in Labels : Call("dump_memory", l)

-----------------------------------------------------------------------------
(* _status, lines 221-268 *)

\* lines 226-268 up to the return: run showvminfo, derive status from what
\* it hands back, report it with set_status or raise when there is none
StatusQuery ==
    /\ pc = "st_query"
    /\ \E q \in QueryOutcomes :
          /\ query' = q
          /\ status' = StatusOf(q)
    /\ IF Truthy(status')
       THEN /\ registry' = [registry EXCEPT ![label] = status']
            /\ log' = log \o << Ev("showvminfo", label, <<>>),
                                Ev("set_status", label, <<status'>>) >>
            /\ pc' = "st_return"
            /\ UNCHANGED result
       ELSE /\ log' = Append(log, Ev("showvminfo", label, <<>>))
            /\ Raise("StatusUnavailable")
            /\ UNCHANGED registry
    /\ UNCHANGED <<op, label, frame, prev>>

\* line 54: the state start refuses
AlreadyStarted_saved(s) == s = SAVED
AlreadyStarted(s) == s = RUNNING

\* line 150: the states stop refuses
AlreadyStopped_poweroff(s) == s = POWEROFF
AlreadyStopped(s) == s \in {POWEROFF, ABORTED}

\* line 264: return status, and what the caller does with it (lines 54-57, 150-153)
StatusReturn ==
    /\ pc = "st_return"
    /\ query' = NoQuery
    /\ CASE op = "start" ->
              IF AlreadyStarted(status)
              THEN Raise("AlreadyRunning")
              ELSE pc' = "start_lookup" /\ UNCHANGED result
         [] op = "stop" ->
              IF AlreadyStopped(status)
              THEN Raise("AlreadyStopped")
              ELSE pc' = "stop_popen" /\ UNCHANGED result
         [] OTHER -> Return(status)
    /\ UNCHANGED <<op, label, status, frame, registry, log, prev>>

-----------------------------------------------------------------------------
(* start, lines 46-114 *)

\* line 59: machine = self.db.view_machine_by_label(label)
StartLookup ==
    /\ pc = "start_lookup"
    /\ \E m \in MachineRecords : machine' = m
    /\ log' = Append(log, Ev("view_machine_by_label", label, <<>>))
    /\ pc' = "start_restore"
    /\ UNCHANGED <<op, label, status, query, vm_state_timeout, stop_me, proc,
                   returncode, terminated, registry, prev, result>>

\* lines 60-74: the arguments after "snapshot <label>"
RestoreArgs_current(m) == <<"restorecurrent">>
RestoreArgs(m) ==
    IF m.snapshot # "" THEN <<"restore", m.snapshot>> ELSE <<"restorecurrent">>

\* what a Popen that captured no lines handed back
Outcome(o) == [launched |-> o.launched, rc |-> o.rc, output |-> <<>>]

\* lines 81 and 86: the outcomes of the snapshot command that make start fail
RestoreFails_launch(o) == ~o.launched
RestoreFails(o) == ~o.launched \/ o.rc # 0

\* lines 76-89: run the snapshot command and wait for its exit code
StartRestore ==
    /\ pc = "start_restore"
    /\ log' = Append(log, Ev("snapshot", label, RestoreArgs(machine)))
    /\ \E o \in ProcOutcomes :
          /\ query' = Outcome(o)
          /\ IF RestoreFails(o)
             THEN Raise("RestoreFailed")
             ELSE pc' = "start_wait_saved" /\ UNCHANGED result
    /\ UNCHANGED <<op, label, status, frame, registry, prev>>

\* _wait_status of the base class: returns once a target state is observed,
\* raises on its own timeout
WaitStatus(targets, next) ==
    /\ log' = Append(log, Ev("_wait_status", label, targets))
    /\ \E reached \in BOOLEAN :
          IF reached THEN next ELSE Raise("WaitTimeout")

\* line 91
StartWaitSaved ==
    /\ pc = "start_wait_saved"
    /\ WaitStatus(<<SAVED>>, pc' = "start_startvm" /\ UNCHANGED result)
    /\ UNCHANGED <<op, label, status, query, frame, registry, prev>>

\* lines 102 and 104: the outcomes of startvm that make start fail
StartFails_launch(o) == ~o.launched
StartFails(o) == ~o.launched \/ o.err # ""

\* lines 93-108: run startvm and read its stderr
StartVm ==
    /\ pc = "start_startvm"
    /\ log' = Append(log, Ev("startvm", label, <<"--type">>))
    /\ \E o \in StartOutcomes :
          /\ query' = [launched |-> o.launched, rc |-> 0,
                       output |-> IF o.err = "" THEN <<>> ELSE <<o.err>>]
          /\ IF StartFails(o)
             THEN Raise("StartFailed")
             ELSE pc' = "start_wait_running" /\ UNCHANGED result
    /\ UNCHANGED <<op, label, status, frame, registry, prev>>

\* line 113: the machines whose traffic is dumped
WantsPcap_always(m) == TRUE
WantsPcap(m) == "nictrace" \in m.options

\* lines 110-114
StartWaitRunning ==
    /\ pc = "start_wait_running"
    /\ WaitStatus(<<RUNNING>>,
                  IF WantsPcap(machine)
                  THEN pc' = "pcap_file" /\ UNCHANGED result
                  ELSE Return(None))
    /\ UNCHANGED <<op, label, status, query, frame, registry, prev>>

-----------------------------------------------------------------------------
(* dump_pcap, lines 116-141: called by start (line 114) or directly *)

\* lines 128 and 139: the outcome check_call turns into CalledProcessError
CalledProcessError_never(o) == FALSE
CalledProcessError(o) == o.launched /\ o.rc # 0

\* lines 121-130: check_call of nictracefile1; CalledProcessError is caught,
\* OSError is not
PcapFile ==
    /\ pc = "pcap_file"
    /\ \E o \in ProcOutcomes :
          /\ query' = Outcome(o)
          /\ CASE ~o.launched ->
                    /\ log' = Append(log, Ev("controlvm", label, <<"nictracefile1">>))
                    /\ Raise("OSError")
               [] CalledProcessError(o) ->
                    /\ log' = log \o << Ev("controlvm", label, <<"nictracefile1">>),
                                        Ev("log.critical", label, <<"nictracefile1">>) >>
                    /\ Return(None)
               [] OTHER ->
                    /\ log' = Append(log, Ev("controlvm", label, <<"nictracefile1">>))
                    /\ pc' = "pcap_on"
                    /\ UNCHANGED result
    /\ UNCHANGED <<op, label, status, frame, registry, prev>>

\* lines 132-141: check_call of nictrace1 on
PcapOn ==
    /\ pc = "pcap_on"
    /\ \E o \in ProcOutcomes :
          /\ query' = Outcome(o)
          /\ CASE ~o.launched ->
                    /\ log' = Append(log, Ev("controlvm", label, <<"nictrace1", "on">>))
                    /\ Raise("OSError")
               [] CalledProcessError(o) ->
                    /\ log' = log \o << Ev("controlvm", label, <<"nictrace1", "on">>),
                                        Ev("log.critical", label, <<"nictrace1">>) >>
                    /\ Return(None)
               [] OTHER ->
                    /\ log' = Append(log, Ev("controlvm", label, <<"nictrace1", "on">>))
                    /\ Return(None)
    /\ UNCHANGED <<op, label, status, frame, registry, prev>>

-----------------------------------------------------------------------------
(* stop, lines 143-186 *)

\* lines 155-168: read the timeout, launch poweroff without waiting for it
StopPopen ==
    /\ pc = "stop_popen"
    /\ \E t \in 0..MaxTimeout : vm_state_timeout' = t
    /\ log' = Append(log, Ev("controlvm", label, <<"poweroff">>))
    /\ \E launched \in BOOLEAN :
          IF launched
          THEN /\ proc' = "running"
               /\ stop_me' = 0
               /\ pc' = "stop_poll"
               /\ UNCHANGED result
          ELSE /\ Raise("StopFailed")
               /\ UNCHANGED <<proc, stop_me>>
    /\ UNCHANGED <<op, label, status, query, machine, returncode, terminated,
                   registry, prev>>

\* the poweroff child exits: on its own, or killed by a SIGTERM it was sent
ProcExit ==
    /\ proc = "running"
    /\ \E p \in {"exited0", "exited1", "killed"} :
          /\ p = "killed" => terminated > 0
          /\ proc' = p
    /\ UNCHANGED <<pc, op, label, status, query, machine, vm_state_timeout, stop_me,
                   returncode, terminated, registry, log, prev, result>>

\* line 170: the polls that sleep rather than terminate
MaySleep_one_more(n, t) == n <= t
MaySleep(n, t) == n < t

\* line 169: proc.poll() is not None, the child has exited
Polled_break(p) == p # "running" \/ terminated > 0
Polled(p) == p # "running"

\* line 169: the loop condition, proc.poll() reaping the child once it has exited
StopPoll ==
    /\ pc = "stop_poll"
    /\ IF Polled(proc)
       THEN /\ returncode' = <<ExitCode(proc)>>
            /\ pc' = "stop_check"
       ELSE /\ pc' = "stop_body"
            /\ UNCHANGED returncode
    /\ UNCHANGED <<op, label, status, query, machine, vm_state_timeout, stop_me,
                   proc, terminated, registry, log, prev, result>>

\* lines 170-175: the loop body, a second of sleep or a terminate request
StopBody ==
    /\ pc = "stop_body"
    /\ IF MaySleep(stop_me, vm_state_timeout)
       THEN /\ stop_me' = stop_me + 1
            /\ UNCHANGED terminated
       ELSE /\ terminated' = Min(terminated + 1, MaxTerm)
            /\ UNCHANGED stop_me
    /\ pc' = "stop_poll"
    /\ UNCHANGED <<op, label, status, query, machine, vm_state_timeout, proc,
                   returncode, registry, log, prev, result>>

\* lines 177-180: the non-zero exit that is logged
StopCheck ==
    /\ pc = "stop_check"
    /\ log' = IF returncode # <<0>> /\ stop_me < vm_state_timeout
              THEN Append(log, Ev("log.debug", label, <<"poweroff">>))
              ELSE log
    /\ pc' = "stop_wait"
    /\ UNCHANGED <<op, label, status, query, frame, registry, prev, result>>

\* line 186: the states stop waits for
StopTargets == <<POWEROFF, ABORTED, SAVED>>

\* line 186
StopWait ==
    /\ pc = "stop_wait"
    /\ WaitStatus(StopTargets, Return(None))
    /\ UNCHANGED <<op, label, status, query, frame, registry, prev>>

-----------------------------------------------------------------------------
(* _list, lines 188-219 *)

INACCESSIBLE == "<inaccessible>"

(* Lines VBoxManage list vms may print, as token sequences. *)
ListLines ==
    { <<Q, "box1", Q, " {uuid}">>,
      <<"no-quotes-here">>,
      <<Q, INACCESSIBLE, Q, " {uuid}">>,
      <<Q, "box2", Q, " {uuid}">>,
      <<Q, "box1">> }

\* what Popen(...).communicate() of list vms can hand back
ListOutcomes ==
    { [launched |-> FALSE, rc |-> 0, output |-> <<>>] }
    \cup { [launched |-> TRUE, rc |-> r, output |-> o] :
              r \in {0, 1}, o \in SeqsUpTo(ListLines, MaxListLines) }

\* line 207: the lines that are skipped
NoQuote(line) == Count(line, Q) = 0

\* line 210: label = line.split('"')[1]
ListLabel_before(line) == Split(line, Q)[1]
ListLabel(line) == Split(line, Q)[2]

\* line 211: the label that is skipped with a warning
IsInaccessible(l) == l = INACCESSIBLE

\* lines 205-218: the loop over the lines, as the appends and warnings it makes
RECURSIVE ListLoop(_)
ListLoop(lines) ==
    IF lines = <<>> THEN <<>>
    ELSE IF NoQuote(Head(lines)) THEN ListLoop(Tail(lines))
    ELSE IF IsInaccessible(ListLabel(Head(lines)))
         THEN <<Ev("log.warning", ListLabel(Head(lines)), <<>>)>> \o ListLoop(Tail(lines))
         ELSE <<Ev("machines.append", ListLabel(Head(lines)), <<>>)>> \o ListLoop(Tail(lines))

\* lines 192-219: run list vms and build the list machines, which is returned
ListRun ==
    /\ pc = "list_popen"
    /\ \E q \in ListOutcomes :
          /\ query' = q
          /\ IF ~q.launched
             THEN /\ log' = Append(log, Ev("list", "", <<"vms">>))
                  /\ Raise("ListFailed")
             ELSE /\ log' = Append(log, Ev("list", "", <<"vms">>)) \o ListLoop(q.output)
                  /\ Return("machines")
    /\ UNCHANGED <<op, label, status, frame, registry, prev>>

-----------------------------------------------------------------------------
(* dump_memory, lines 270-321 *)

(* Texts VBoxManage -v may print, as token sequences: the first token is the
   first character. *)
Versions ==
    { <<"5", ".0.10r104061">>, <<"4", ".3.2">>, <<"6", ".1.0">>, <<"1", "5.0">>, <<>> }

\* what Popen(...).communicate() of -v can hand back
VersionOutcomes ==
    { [launched |-> FALSE, rc |-> 0, output |-> <<>>] }
    \cup { [launched |-> TRUE, rc |-> r, output |-> o] : r \in {0, 1}, o \in Versions }

\* lines 291-294: the outcome of the version probe that makes dump_memory fail
VersionAborts(q) == ~q.launched

\* lines 275-294: ask VBoxManage for its version
DumpVersion ==
    /\ pc = "dump_version"
    /\ \E q \in VersionOutcomes :
          /\ query' = q
          /\ IF VersionAborts(q)
             THEN /\ log' = Append(log, Ev("-v", label, <<>>))
                  /\ Raise("VersionQueryFailed")
             ELSE /\ log' = IF q.rc # 0
                            THEN log \o << Ev("-v", label, <<>>),
                                           Ev("log.debug", label, <<"-v">>) >>
                            ELSE Append(log, Ev("-v", label, <<>>))
                  /\ pc' = "dump_debugvm"
                  /\ UNCHANGED result
    /\ UNCHANGED <<op, label, status, frame, registry, prev>>

\* lines 296-300: the debugvm subcommand for the version
DumpCmd_v4(output) == IF StartsWith(output, "4") THEN "dumpguestcore" ELSE "dumpvmcore"
DumpCmd(output) == IF StartsWith(output, "5") THEN "dumpvmcore" ELSE "dumpguestcore"

\* lines 317-321: the outcome of debugvm that makes dump_memory fail
DumpFails_nonzero(o) == ~o.launched \/ o.rc # 0
DumpFails(o) == ~o.launched

\* lines 302-321: run debugvm and wait for it, whatever its exit code
DumpDebugvm ==
    /\ pc = "dump_debugvm"
    /\ \E o \in ProcOutcomes :
          /\ proc' = IF ~o.launched THEN "none"
                     ELSE IF o.rc = 0 THEN "exited0" ELSE "exited1"
          /\ IF DumpFails(o)
             THEN /\ log' = Append(log, Ev("debugvm", label, <<DumpCmd(query.output)>>))
                  /\ Raise("DumpFailed")
             ELSE /\ log' = log \o << Ev("debugvm", label, <<DumpCmd(query.output)>>),
                                      Ev("log.info", label, <<"debugvm">>) >>
                  /\ Return(None)
    /\ UNCHANGED <<op, label, status, query, machine, vm_state_timeout, stop_me,
                   returncode, terminated, registry, prev>>

-----------------------------------------------------------------------------
(* The specification *)

\* the statements of the running call
Step ==
    \/ StatusQuery
    \/ StatusReturn
    \/ StartLookup
    \/ StartRestore
    \/ StartWaitSaved
    \/ StartVm
    \/ StartWaitRunning
    \/ PcapFile
    \/ PcapOn
    \/ StopPopen
    \/ StopPoll
    \/ StopBody
    \/ StopCheck
    \/ StopWait
    \/ ListRun
    \/ DumpVersion
    \/ DumpDebugvm

Next ==
    \/ CallStatus
    \/ CallStart
    \/ CallStop
    \/ CallDumpPcap
    \/ CallList
    \/ CallDumpMemory
    \/ ProcExit
    \/ Step

Spec == Init /\ [][Next]_vars

\* the interpreter keeps executing the running call; nothing obliges the
\* child process to exit
FairSpec == Init /\ [][Next]_vars /\ WF_vars(Step)

TypeOK ==
    /\ pc \in {"idle", "st_query", "st_return", "start_lookup",
               "start_restore", "start_wait_saved", "start_startvm",
               "start_wait_running", "pcap_file", "pcap_on", "stop_popen",
               "stop_poll", "stop_body", "stop_check", "stop_wait", "list_popen",
               "dump_version", "dump_debugvm"}
    /\ op \in {"none", "status", "start", "stop", "dump_pcap", "list", "dump_memory"}
    /\ label \in Labels
    /\ query.launched \in BOOLEAN
    /\ machine \in MachineRecords
    /\ vm_state_timeout \in 0..MaxTimeout
    /\ stop_me \in 0..MaxTimeout
    /\ proc \in ProcStates
    /\ terminated \in 0..MaxTerm
    /\ returncode \in {<<>>} \cup {<<ExitCode(p)>> : p \in ProcStates}

-----------------------------------------------------------------------------
(* Properties *)

\* the call has left with exception e / with value v
Raised(e) == pc = "idle" /\ result = <<"raise", e>>
Returned(v) == pc = "idle" /\ result = <<"return", v>>

\* the events of the log issued with command c
Events(c) == { i \in DOMAIN log : log[i].cmd = c }

\* what a call holds when all it did was one status query that reported s
QueryOnly(s) == << Ev("showvminfo", label, <<>>), Ev("set_status", label, <<s>>) >>

\* C1: a start whose status query yields "running" raises the already-started
\* error and does nothing but that query: no machine record is looked up, and
\* no snapshot, startvm or trace command is launched.
C1_StartRefusesRunning ==
    (op = "start" /\ status = RUNNING /\ pc # "st_return")
        => /\ Raised("AlreadyRunning")
           /\ log = QueryOnly(RUNNING)
           /\ machine = NoMachine

C1_Witness == op = "start" /\ status = RUNNING /\ Raised("AlreadyRunning")

\* C2: a stop whose status query yields "poweroff" or "aborted" raises the
\* already-stopped error and does nothing but that query: no poweroff process
\* is launched, nothing is terminated and _wait_status is not called.
C2_StopRefusesStopped ==
    (op = "stop" /\ status \in {POWEROFF, ABORTED} /\ pc # "st_return")
        => /\ Raised("AlreadyStopped")
           /\ log = QueryOnly(status)
           /\ proc = "none"
           /\ terminated = 0

C2_Witness == op = "stop" /\ status = ABORTED /\ Raised("AlreadyStopped")

\* C3: in stop, termination of the poweroff process is requested exactly once
\* when it has not exited within the timeout, and the loop is left after that
\* request: whatever the process does afterwards, no second request is made.
C3_TerminateExactlyOnce ==
    op = "stop" => terminated <= 1

\* C4: a stop that has launched the poweroff process eventually calls
\* _wait_status, whichever way the process behaves; the caller does not stay
\* in the polling loop forever.
C4_StopReachesWait ==
    (pc = "stop_poll") ~> (pc = "stop_wait")

\* the six steps of a start with a named snapshot followed by a stop
RoundTrip(l, snap) ==
    << Ev("snapshot", l, <<"restore", snap>>),
       Ev("_wait_status", l, <<SAVED>>),
       Ev("startvm", l, <<"--type">>),
       Ev("_wait_status", l, <<RUNNING>>),
       Ev("controlvm", l, <<"poweroff">>),
       Ev("_wait_status", l, <<POWEROFF, ABORTED, SAVED>>) >>

\* the trace commands a dump_pcap can have issued
TraceNone == <<>>
TraceFile(l) == << Ev("controlvm", l, <<"nictracefile1">>) >>
TraceBoth(l) == << Ev("controlvm", l, <<"nictracefile1">>),
                   Ev("controlvm", l, <<"nictrace1", "on">>) >>

\* a stop has returned that followed a returned start of the same label
\* whose machine record names a snapshot
RoundTripDone ==
    op = "stop" /\ Returned(None) /\ prev # NoPrev /\ prev.machine.snapshot # ""

\* C5 as stated: start then stop of a label with a snapshot name issue the six
\* steps of the round trip in order, and nothing else but the two status queries.
C5_RoundTripExactlySix ==
    RoundTripDone => prev.issued \o Issued(log) = RoundTrip(label, prev.machine.snapshot)

\* C5 amended: the six steps are issued in that order; without the nictrace
\* option nothing else is issued, with it the nictracefile1 command, followed
\* by the nictrace1 command when it exited zero, comes between the wait for
\* "running" and the poweroff.
C5_RoundTripWithTrace ==
    RoundTripDone =>
        LET six == RoundTrip(label, prev.machine.snapshot)
            all == prev.issued \o Issued(log)
        IN  IF "nictrace" \in prev.machine.options
            THEN \E t \in {TraceFile(label), TraceBoth(label)} :
                    all = SubSeq(six, 1, 4) \o t \o SubSeq(six, 5, 6)
            ELSE all = six

C5_Witness ==
    /\ RoundTripDone
    /\ "nictrace" \in prev.machine.options
    /\ Len(prev.issued) = 6

\* a call has run dump_pcap
PcapInvoked == \E i \in Events("controlvm") : log[i].arg[1] = "nictracefile1"

\* C6: dump_pcap never raises, whichever way its commands fail; a call that
\* has invoked it leaves with a return, not with an exception.
C6_DumpPcapNeverRaises ==
    (pc = "idle" /\ PcapInvoked) => result[1] = "return"

-----------------------------------------------------------------------------
(* The status a showvminfo output stands for, read off the output as a whole *)

\* a line VMState="<value>": the prefix and exactly two quote characters
WellFormed(line) ==
    /\ Len(line) >= 1
    /\ line[1] = "VMState="
    /\ Cardinality({ i \in DOMAIN line : line[i] = Q }) = 2

\* the value between the two quotes of such a line ("" when there is none)
QuotedValue(line) ==
    LET qs == { i \in DOMAIN line : line[i] = Q }
        first == CHOOSE i \in qs : \A j \in qs : i <= j
    IN  IF first + 1 \in qs THEN "" ELSE line[first + 1]

StateLines(out) == { i \in DOMAIN out : WellFormed(out[i]) }
LastStateLine(out) == CHOOSE i \in StateLines(out) : \A j \in StateLines(out) : j <= i

\* the value of the last VMState line, "" when there is no such line
LastValue(out) ==
    IF StateLines(out) = {} THEN "" ELSE Lower(QuotedValue(out[LastStateLine(out)]))

\* _status is at its return statement / has raised: query holds what showvminfo did
AtReturn == pc = "st_return"
Unavailable == Raised("StatusUnavailable")

Closed == {SAVED, RUNNING, POWEROFF, ABORTED, ERROR}

\* C7 as stated: the status query returns Error when showvminfo exits non-zero
\* and when it exits zero without a VMState line, and PowerOff when it exits
\* zero and the output has the line VMState="poweroff".
C7_ErrorWhenNoStateLine ==
    ((AtReturn \/ Unavailable) /\ query.launched) =>
        /\ query.rc # 0 => (AtReturn /\ status = ERROR)
        /\ (query.rc = 0 /\ StateLines(query.output) = {}) => (AtReturn /\ status = ERROR)
        /\ (query.rc = 0 /\ \E i \in DOMAIN query.output :
                                query.output[i] = <<"VMState=", Q, "poweroff", Q>>)
              => (AtReturn /\ status = POWEROFF)

\* C7 amended: the query returns Error when showvminfo exits non-zero; when it
\* exits zero and no VMState line with a value is the last VMState line, it
\* raises and returns nothing; when it exits zero and the last VMState line is
\* VMState="poweroff", it returns PowerOff.
C7_RaisesWhenNoStateLine ==
    ((AtReturn \/ Unavailable) /\ query.launched) =>
        /\ query.rc # 0 => (AtReturn /\ status = ERROR)
        /\ (query.rc = 0 /\ LastValue(query.output) = "") => Unavailable
        /\ (query.rc = 0 /\ LastValue(query.output) = POWEROFF)
              => (AtReturn /\ status = POWEROFF)

C7_Witness ==
    /\ Unavailable
    /\ query.launched /\ query.rc = 0
    /\ StateLines(query.output) = {}
    /\ Len(query.output) = MaxLines

\* C8 as stated: a launch failure of showvminfo is propagated as an error; the
\* status query returns no state.
C8_LaunchFailureRaises ==
    ((AtReturn \/ Unavailable) /\ ~query.launched) => Unavailable

\* C8 amended: a launch failure of showvminfo is not propagated; the status
\* query reports Error with set_status and returns Error.
C8_LaunchFailureIsError ==
    ((AtReturn \/ Unavailable) /\ ~query.launched) =>
        /\ AtReturn
        /\ status = ERROR
        /\ registry[label] = ERROR
        /\ log[Len(log)] = Ev("set_status", label, <<ERROR>>)

C8_Witness == AtReturn /\ ~query.launched /\ status = ERROR /\ op = "start"

\* the status the query of this call stands for
Fresh(q) == IF ~q.launched \/ q.rc # 0 THEN ERROR ELSE LastValue(q.output)

\* C9: every value handed to set_status is the one derived from the showvminfo
\* of the same call, each report directly follows the query it belongs to and
\* precedes the return of that value, and a query that raises reports nothing.
C9_ReportsAreFresh ==
    /\ \A i \in Events("set_status") :
          i > 1 /\ log[i - 1] = Ev("showvminfo", log[i].label, <<>>)
    /\ AtReturn =>
          /\ log[Len(log)] = Ev("set_status", label, <<Fresh(query)>>)
          /\ status = Fresh(query)
          /\ registry[label] = Fresh(query)
    /\ (op = "status" /\ pc = "idle" /\ result[1] = "return") =>
          log = QueryOnly(result[2])
    /\ Unavailable => Events("set_status") = {}

C9_Witness ==
    /\ AtReturn
    /\ op = "stop"
    /\ prev # NoPrev
    /\ status = "paused"

\* C10 as stated: every value the status query returns or reports is one of
\* saved, running, poweroff, aborted and the error value.
C10_StatusInClosedSet ==
    /\ AtReturn => status \in Closed
    /\ \A i \in Events("set_status") : log[i].arg[1] \in Closed

\* C10 amended: every value the status query returns or reports is the error
\* value or the lowercased value of a VMState line of the output, whatever that
\* value is; it lies outside the five named states exactly when showvminfo
\* exited zero and its last VMState line carries such a value.
C10_StatusIsErrorOrLineValue ==
    AtReturn =>
        /\ log[Len(log)].arg = <<status>>
        /\ status \in {ERROR} \cup
               { Lower(QuotedValue(query.output[i])) : i \in StateLines(query.output) }
        /\ status \notin Closed <=>
               /\ query.launched /\ query.rc = 0
               /\ LastValue(query.output) \notin Closed \cup {""}

C10_Witness ==
    /\ AtReturn
    /\ status = "paused"
    /\ Cardinality(StateLines(query.output)) >= 2

-----------------------------------------------------------------------------
(* list *)

\* the list _list returns: the labels appended to machines, in order
Machines ==
    LET app == SelectSeq(log, LAMBDA e : e.cmd = "machines.append")
    IN  [ i \in 1..Len(app) |-> app[i].label ]

\* the positions of the quote characters of a line
Quotes(line) == { i \in DOMAIN line : line[i] = Q }
FirstQuote(line) == CHOOSE i \in Quotes(line) : \A j \in Quotes(line) : i <= j

\* the text that follows the first quote of a line, up to the next quote or
\* the end of the line
AfterFirstQuote(line) ==
    IF FirstQuote(line) = Len(line) \/ FirstQuote(line) + 1 \in Quotes(line)
    THEN "" ELSE line[FirstQuote(line) + 1]

\* the given texts of the lines that satisfy pick, without the inaccessible ones
Listed(out, pick(_), text(_)) ==
    LET cand == SelectSeq(out, pick)
        labels == [ i \in 1..Len(cand) |-> text(cand[i]) ]
    IN  SelectSeq(labels, LAMBDA l : l # INACCESSIBLE)

ListDone == op = "list" /\ pc = "idle" /\ query.launched

\* C11 as stated: list returns the first quoted substring of every line that
\* has one, in the order of the lines, without the inaccessible labels, and
\* nothing else; it does not fail.
C11_FirstQuotedSubstrings ==
    ListDone =>
        /\ Returned("machines")
        /\ Machines = Listed(query.output,
                             LAMBDA l : Cardinality(Quotes(l)) >= 2, AfterFirstQuote)

\* C11 amended: list returns, for every line that contains a quote character,
\* the text between its first quote and its next quote or, when it has no
\* second quote, the end of the line; in the order of the lines, without the
\* inaccessible labels; it does not fail.
C11_TextAfterFirstQuote ==
    ListDone =>
        /\ Returned("machines")
        /\ Machines = Listed(query.output,
                             LAMBDA l : Quotes(l) # {}, AfterFirstQuote)

C11_Witness ==
    /\ ListDone
    /\ Returned("machines")
    /\ query.output = << <<Q, "box1", Q, " {uuid}">>, <<"no-quotes-here">>,
                         <<Q, INACCESSIBLE, Q, " {uuid}">>, <<Q, "box2", Q, " {uuid}">> >>
    /\ Machines = <<"box1", "box2">>

-----------------------------------------------------------------------------
(* dump_memory *)

\* the debugvm commands of the call, by their subcommand
Debugvm(sub) == { i \in Events("debugvm") : log[i].arg = <<sub>> }

\* C12: dump_memory issues debugvm with dumpvmcore exactly when the text the
\* version probe printed begins with the character 5, and with dumpguestcore
\* for every other text, the empty one and that of a failed probe included.
C12_DumpCmdByFirstChar ==
    (op = "dump_memory" /\ Events("debugvm") # {}) =>
        LET five == Len(query.output) >= 1 /\ query.output[1] = "5"
        IN  /\ five => Events("debugvm") = Debugvm("dumpvmcore")
            /\ ~five => Events("debugvm") = Debugvm("dumpguestcore")

C12_Witness ==
    /\ op = "dump_memory"
    /\ query.rc # 0
    /\ query.output = <<>>
    /\ Debugvm("dumpguestcore") # {}

\* C20: a version probe that cannot be launched fails dump_memory before any
\* debugvm command; a probe that exits non-zero does not: debugvm is issued
\* once, and whatever it exits with dump_memory returns; only a debugvm that
\* cannot be launched fails it.
C20_DumpMemoryFailures ==
    (op = "dump_memory" /\ pc = "idle") =>
        IF ~query.launched
        THEN Raised("VersionQueryFailed") /\ Events("debugvm") = {}
        ELSE /\ Cardinality(Events("debugvm")) = 1
             /\ proc \in {"exited0", "exited1"} => Returned(None)
             /\ proc = "none" => Raised("DumpFailed")

C20_Witness ==
    /\ op = "dump_memory"
    /\ query.launched /\ query.rc # 0
    /\ proc = "exited1"
    /\ Returned(None)

-----------------------------------------------------------------------------
(* stop: the polling loop *)

\* C13: within a stop, _wait_status is not called while the poweroff process
\* is still running; the loop is left only with the process reaped, also
\* after a terminate request.
C13_WaitAfterExit ==
    (op = "stop" /\ (pc \in {"stop_check", "stop_wait"} \/ Events("_wait_status") # {}))
        => /\ proc \in {"exited0", "exited1", "killed"}
           /\ returncode = <<ExitCode(proc)>>

C13_Witness ==
    /\ op = "stop"
    /\ terminated > 0
    /\ proc = "killed"
    /\ Events("_wait_status") # {}

\* C14: terminate is requested only in the loop body, after vm_state_timeout
\* sleeps that each followed a poll finding the process running; once a poll
\* has found the process exited, no terminate request is made.
C14_TerminateOnlyAtTimeout ==
    [][ /\ terminated' > terminated =>
              /\ pc = "stop_body"
              /\ stop_me = vm_state_timeout
              /\ proc' = proc
        /\ pc \in {"stop_check", "stop_wait"} => terminated' = terminated ]_vars

C14_Witness ==
    /\ op = "stop"
    /\ vm_state_timeout = MaxTimeout
    /\ stop_me = vm_state_timeout
    /\ terminated = 1

\* C15: a poweroff process that exits non-zero without a terminate request
\* has that exit logged, also when it exits during the last second of the
\* timeout; after a terminate request nothing is logged; no error is raised.
C15_NonZeroExitLogged ==
    (op = "stop" /\ pc = "stop_wait" /\ vm_state_timeout > 0) =>
        ((terminated = 0 /\ returncode # <<0>>) <=> Events("log.debug") # {})

-----------------------------------------------------------------------------
(* start: the failure paths *)

LastCmd == IF log = <<>> THEN "" ELSE log[Len(log)].cmd
Waits(target) == { i \in Events("_wait_status") : log[i].arg = <<target>> }
FileEvents == { i \in Events("controlvm") : log[i].arg = <<"nictracefile1">> }
OnEvents == { i \in Events("controlvm") : log[i].arg = <<"nictrace1", "on">> }

\* C16: when the snapshot command exits non-zero or cannot be launched start
\* raises and runs none of the later steps; the command restores the named
\* snapshot exactly when the machine record names one, the current one otherwise.
C16_RestoreFailureStops ==
    op = "start" =>
        /\ \A i \in Events("snapshot") :
              log[i].arg = IF machine.snapshot = "" THEN <<"restorecurrent">>
                           ELSE <<"restore", machine.snapshot>>
        /\ (LastCmd = "snapshot" /\ (~query.launched \/ query.rc # 0))
              => Raised("RestoreFailed")
        /\ Raised("RestoreFailed") =>
              /\ LastCmd = "snapshot"
              /\ Cardinality(Events("snapshot")) = 1
              /\ Events("_wait_status") \cup Events("startvm") \cup Events("controlvm") = {}

C16_Witness ==
    /\ op = "start"
    /\ Raised("RestoreFailed")
    /\ query.launched /\ query.rc # 0
    /\ machine.snapshot = ""

\* C17: when startvm writes to stderr or cannot be launched start raises and
\* neither waits for "running" nor dumps the traffic; startvm is issued only
\* right after the wait for "saved" has returned.
C17_StartFailureStops ==
    op = "start" =>
        /\ \A i \in Events("startvm") :
              i > 1 /\ log[i - 1] = Ev("_wait_status", label, <<SAVED>>)
        /\ (LastCmd = "startvm" /\ (~query.launched \/ query.output # <<>>))
              => Raised("StartFailed")
        /\ Raised("StartFailed") =>
              /\ LastCmd = "startvm"
              /\ Waits(RUNNING) \cup FileEvents \cup OnEvents = {}

C17_Witness ==
    /\ op = "start"
    /\ Raised("StartFailed")
    /\ query.launched /\ query.output # <<>>

\* C18: start runs dump_pcap exactly when the machine's options hold
\* nictrace, once, and right after the wait for "running" has returned;
\* without the option start issues no trace command.
C18_PcapIffOption ==
    op = "start" =>
        /\ (FileEvents \cup OnEvents # {}) => "nictrace" \in machine.options
        /\ Cardinality(FileEvents) <= 1
        /\ \A i \in FileEvents : i > 1 /\ log[i - 1] = Ev("_wait_status", label, <<RUNNING>>)
        /\ (Waits(RUNNING) # {} /\ ~Raised("WaitTimeout") /\ "nictrace" \in machine.options)
              => (pc = "pcap_file" \/ FileEvents # {})

C18_Witness ==
    /\ op = "start"
    /\ Returned(None)
    /\ OnEvents # {}

-----------------------------------------------------------------------------
(* dump_pcap *)

\* C19: nictrace1 on is issued only right after nictracefile1 has exited
\* zero; when nictracefile1 exits non-zero a critical message is logged and
\* the call returns without enabling the trace.
C19_TraceOnAfterFile ==
    /\ pc = "pcap_on" =>
          /\ query.launched /\ query.rc = 0
          /\ log[Len(log)] = Ev("controlvm", label, <<"nictracefile1">>)
    /\ \A i \in OnEvents :
          i > 1 /\ log[i - 1] = Ev("controlvm", label, <<"nictracefile1">>)
    /\ (pc = "idle" /\ FileEvents # {} /\ OnEvents = {} /\ query.launched /\ query.rc # 0)
          => /\ log[Len(log)] = Ev("log.critical", label, <<"nictracefile1">>)
             /\ Returned(None)

C19_Witness ==
    /\ op = "start"
    /\ FileEvents # {} /\ OnEvents = {}
    /\ query.launched /\ query.rc # 0
    /\ Returned(None)

====
